---- MODULE Spec2Model ----
(***************************************************************************)
(* QuickGPT: the message controllers of the Express server                 *)
(* (src/server/config/db.js) and the Sidebar of the React client           *)
(* (src/client/src/components/Sidebar.jsx, src/unnamed/part_002).          *)
(*                                                                         *)
(* Spec        : the server.  Two request handlers run concurrently; every *)
(*               await of a controller is a point where the other handler  *)
(*               may run, so each action is the code between two awaits.   *)
(* SpecSidebar : the client.  One mounted Sidebar, its render closures,    *)
(*               its auto-delete timers and the answers of the server.     *)
(*                                                                         *)
(* Date.now() timestamps are left out of the messages: no branch of the    *)
(* code reads them.                                                        *)
(***************************************************************************)
EXTENDS Integers, Sequences, FiniteSets, TLC

VARIABLES
  \* ---- the server (Spec)
  credits,    \* User collection: the stored credits of every user
  credits0,   \* history: the credits every user started with
  Chat,       \* Chat collection: chat id -> [userId, messages]
  req,        \* handler -> the request it handles and the handler's locals
  sends,      \* history: number of requests received so far
  ok200,      \* history: user -> mode -> number of sends answered 200
  \* ---- the client (SpecSidebar)
  user,               \* context: version of the user object, 0 = no user
  chats,              \* context: the chat list the components render
  selectedChat,       \* context: _id of the selected chat, 0 = none
  autoCreated,        \* Sidebar state
  deletionTimersRef,  \* Sidebar ref: chat _id -> timeout id, 0 = no entry
  timeouts,           \* the browser's pending timeouts, each with the
                      \* `chats` its callback closed over
  nextTimeout,        \* the id setTimeout returns next
  clicks,             \* history: clicks on New Chat so far
  newChat,            \* the handleCreateNewChat invocation in flight
  effectRuns,         \* the runs of the auto-create effect in flight
  callbacks,          \* the timer callbacks waiting for an answer
  deleting,           \* the deleteChat invocation in flight
  serverChats,        \* the user's chats as the server stores them
  nextChat,           \* the _id the server gives the next chat
  clock,              \* the server's time, for updatedAt
  origin,             \* history: chat _id -> what created the chat
  timerLog,           \* history: chat _id -> what its timer callbacks did
  \* ---- the credit controllers (SpecServer)
  Transaction,        \* Transaction collection: the documents in creation order
  pay,                \* the request the credit router handles and its locals
  \* ---- the ChatBox (SpecChatBox)
  messages,           \* ChatBox state: the displayed message list
  loading,            \* ChatBox state
  promptInput,        \* ChatBox state `prompt`: the text of the prompt input
  sendMode,           \* ChatBox state `mode`
  publish,            \* ChatBox state `isPublished`
  shownChat,          \* context: _id of the selectedChat the ChatBox renders
  clientCredits,      \* context: user.credits
  chatObjects,        \* context: chat _id -> messages of the chat object
  submit,             \* the call of onSubmit in flight and its closure
  listening,          \* ChatBox state: the microphone is on
  committedRef,       \* ChatBox ref: the text the dictation is added to
  recog,              \* the SpeechRecognition object: its session, and for
                      \* the properties the prompt at the start of the
                      \* microphone and the last final transcript
  \* ---- getPublishedImages (SpecGallery)
  gallery             \* the request for the published images and its answer

serverVars == <<credits, credits0, Chat, req, sends, ok200>>

sidebarVars ==
  <<user, chats, selectedChat, autoCreated, deletionTimersRef, timeouts,
    nextTimeout, clicks, newChat, effectRuns, callbacks, deleting,
    serverChats, nextChat, clock, origin, timerLog>>

creditVars == <<Transaction, pay>>

speechVars == <<listening, committedRef, recog>>

chatBoxVars ==
  <<messages, loading, promptInput, sendMode, publish, shownChat,
    clientCredits, chatObjects, submit, speechVars>>

vars == <<serverVars, sidebarVars, creditVars, chatBoxVars, gallery>>

----------------------------------------------------------------------------
(* Bounds *)

\* Largest initial balance of a user.
MaxCredits == 3

\* Number of requests received in one behaviour.
MaxSends == 2

----------------------------------------------------------------------------
(* The data *)

Users == {"u1", "u2"}

\* The authenticated users of the requests.  "u2" owns a chat and sends
\* nothing: a send of u2 to c1 is the mirror image of a send of u1 to c2.
Senders == {"u1"}

\* The two handlers that may be in flight at the same time.
Handlers == {"h1", "h2"}

\* The stored chats and their owners; "c3" is an id that names no chat.
ChatOwner == [c1 |-> "u1", c2 |-> "u2"]

StoredChatIds == DOMAIN ChatOwner

\* A field that is absent from the JSON body (JavaScript's undefined).
Undefined == "undefined"

\* No document (JavaScript's null).
Null == [null |-> TRUE]

Modes == {"text", "image"}

\* req.body.chatId, req.body.prompt, req.body.isPublished as they may arrive.
ChatIdInputs == {Undefined, "c1", "c2", "c3"}

PromptInputs == {Undefined, "", "hi"}

IsPublishedInputs == {Undefined, "true", "false"}

\* Mutant: only an absent field is rejected, an empty string passes.
FalsyUndefinedOnly(x) == x = Undefined

\* JavaScript's !x for a body field: undefined and the empty string are falsy.
Falsy(x) == x = Undefined \/ x = ""

\* The destructuring default of line 95: isPublished = true when absent.
DefaultTrue(x) == IF x = Undefined THEN TRUE ELSE x = "true"

----------------------------------------------------------------------------
(* Pure parts of the controllers *)

\* Mutant: the image controller checks credits < 1 like the text controller.
CreditMinOne(mode) == 1

\* The credit pre-checks: req.user.credits < 1 (text), < 2 (image).
CreditMin(mode) == IF mode = "text" THEN 1 ELSE 2

\* Mutant: the image controller decrements by 1 like the text controller.
DecAmountOne(mode) == 1

\* The decrements: $inc credits by -1 (text), by -2 (image).
DecAmount(mode) == IF mode = "text" THEN 1 ELSE 2

\* Mutant: the query filters by _id alone.
FindOneAnyOwner(db, userId, chatId) ==
  IF chatId \in DOMAIN db
    THEN [_id |-> chatId, userId |-> db[chatId].userId,
          messages |-> db[chatId].messages]
    ELSE Null

\* Chat.findOne({ userId, _id: chatId }): the chat with that id if that user
\* owns it, else null.
FindOne(db, userId, chatId) ==
  IF chatId \in DOMAIN db /\ db[chatId].userId = userId
    THEN [_id |-> chatId, userId |-> db[chatId].userId,
          messages |-> db[chatId].messages]
    ELSE Null

\* Mutant: unshift instead of push.
PushFront(msgs, m) == <<m>> \o msgs

\* chat.messages.push(m)
Push(msgs, m) == Append(msgs, m)

\* The user message: isPublished is the literal true for text and the
\* (defaulted) body field for image.
UserMessage(mode, prompt, isPublished) ==
  [role |-> "user", content |-> prompt, isImage |-> FALSE,
   isPublished |-> IF mode = "text" THEN TRUE ELSE DefaultTrue(isPublished)]

\* { ...choices[0].message, timestamp, isImage: false }: no isPublished field.
TextReply(message) ==
  [role |-> message.role, content |-> message.content, isImage |-> FALSE]

ImageReply(url, isPublished) ==
  [role |-> "assistant", content |-> url, isImage |-> TRUE,
   isPublished |-> DefaultTrue(isPublished)]

\* Mutant: the save sends only the two pushed messages, which the store
\* appends to whatever it holds.
SaveAppend(db, doc) ==
  [db EXCEPT ![doc._id].messages =
     @ \o SubSeq(doc.messages, Len(doc.messages) - 1, Len(doc.messages))]

\* chat.save(): the document the handler holds replaces the stored one; the
\* write carries no version condition.
Save(db, doc) == [db EXCEPT ![doc._id].messages = doc.messages]

\* What the completion API answers with when it answers.
VendorMessage == [role |-> "assistant", content |-> "answer"]

\* The url ImageKit returns for the uploaded image.
UploadUrl == "https://ik/quickgpt/1.png"

----------------------------------------------------------------------------
(* The handlers *)

IdleReq ==
  [pc |-> "idle", user |-> "u1", mode |-> "text", credits |-> 0,
   chatId |-> Undefined, prompt |-> Undefined, isPublished |-> Undefined,
   chat |-> Null, reply |-> Null, status |-> 0, vendorCalls |-> 0,
   read |-> <<>>, saved |-> FALSE, wrote |-> <<>>, charged |-> FALSE,
   error |-> "none", body |-> Null]

\* The message of a failure answer, lines 26, 31, 36, 80 / 92, 97, 103, 150.
FailureMessage(mode, code) ==
  CASE code = 402 -> "You don't have enough credits to use this feature"
    [] code = 400 -> IF mode = "text" THEN "chatId and prompt are required"
                     ELSE "prompt and chatId are required"
    [] code = 404 -> "Chat not found"
    [] OTHER -> "error.message"

\* The JSON body of an answer: { success: true, reply } with 200, lines 72 /
\* 143, and { success: false, message } with every other code.
JsonBody(r, code) ==
  IF code = 200 THEN [success |-> TRUE, reply |-> r.reply]
  ELSE [success |-> FALSE, message |-> FailureMessage(r.mode, code)]

\* res.status(code).json(...): the handler returns.
Answer(r, code) ==
  [r EXCEPT !.pc = "done", !.status = code, !.body = JsonBody(r, code)]

\* The catch block, lines 73-81 / 144-151: no response was sent yet in the
\* try block (every res call there is a return), so the catch answers 500.
\* `thrownBy` records the call that threw.
Catch(r, thrownBy) == [Answer(r, 500) EXCEPT !.error = thrownBy]

ServerUnchanged == UNCHANGED <<credits, credits0, Chat, sends, ok200>>

ServerInit ==
  /\ credits0 \in [Users -> 0..MaxCredits]
  /\ \A u \in Users \ Senders : credits0[u] = MaxCredits
  /\ credits = credits0
  /\ Chat = [c \in StoredChatIds |-> [userId |-> ChatOwner[c], messages |-> <<>>]]
  /\ req = [h \in Handlers |-> IdleReq]
  /\ sends = 0
  /\ ok200 = [u \in Users |-> [m \in Modes |-> 0]]

\* A request arrives at /api/message/<mode>; the auth middleware has put the
\* user document, with the credits stored at that moment, on req.user.  The
\* text controller never reads body.isPublished, so it is drawn for image only.
Receive(h) ==
  /\ req[h].pc \in {"idle", "done"}
  /\ sends < MaxSends
  /\ \E u \in Senders, m \in Modes, c \in ChatIdInputs, p \in PromptInputs,
        ip \in IsPublishedInputs :
       /\ m = "text" => ip = Undefined
       /\ req' = [req EXCEPT ![h] =
                    [IdleReq EXCEPT !.pc = "start", !.user = u, !.mode = m,
                                    !.credits = credits[u], !.chatId = c,
                                    !.prompt = p, !.isPublished = ip]]
  /\ sends' = sends + 1
  /\ UNCHANGED <<credits, credits0, Chat, ok200>>
  /\ UNCHANGED <<sidebarVars, creditVars, chatBoxVars, gallery>>

\* Lines 22-34 / 88-101: the credit check, the body check, then findOne is
\* issued.
CheckRequest(h) ==
  /\ req[h].pc = "start"
  /\ req' = [req EXCEPT ![h] =
               IF req[h].credits < CreditMin(req[h].mode) THEN Answer(@, 402)
               ELSE IF Falsy(req[h].chatId) \/ Falsy(req[h].prompt)
                 THEN Answer(@, 400)
               ELSE [@ EXCEPT !.pc = "find"]]
  /\ ServerUnchanged
  /\ UNCHANGED <<sidebarVars, creditVars, chatBoxVars, gallery>>

\* Mutant: the user message is saved as soon as it is pushed, before the
\* vendor is called.
FindChatSaves(h) ==
  /\ req[h].pc = "find"
  /\ LET r == req[h]
         chat == FindOne(Chat, r.user, r.chatId)
         pushed == [chat EXCEPT !.messages =
                      Push(chat.messages,
                           UserMessage(r.mode, r.prompt, r.isPublished))]
     IN IF chat = Null
          THEN /\ req' = [req EXCEPT ![h] = Answer(r, 404)]
               /\ Chat' = Chat
          ELSE /\ Chat' = Save(Chat, pushed)
               /\ req' = [req EXCEPT ![h] =
                            [r EXCEPT !.read = chat.messages, !.chat = pushed,
                                      !.saved = TRUE, !.vendorCalls = 1,
                                      !.pc = "vendor"]]
  /\ UNCHANGED <<credits, credits0, sends, ok200>>
  /\ UNCHANGED <<sidebarVars, creditVars, chatBoxVars, gallery>>

\* Lines 34-58 / 101-115: findOne resolves; 404 without a chat, else the
\* user message is pushed onto the in-memory document and the vendor is called.
FindChat(h) ==
  /\ req[h].pc = "find"
  /\ LET r == req[h]
         chat == FindOne(Chat, r.user, r.chatId)
     IN req' = [req EXCEPT ![h] =
                  IF chat = Null THEN Answer(r, 404)
                  ELSE [r EXCEPT
                          !.read = chat.messages,
                          !.chat = [chat EXCEPT !.messages =
                                      Push(chat.messages,
                                           UserMessage(r.mode, r.prompt,
                                                       r.isPublished))],
                          !.vendorCalls = 1,
                          !.pc = "vendor"]]
  /\ ServerUnchanged
  /\ UNCHANGED <<sidebarVars, creditVars, chatBoxVars, gallery>>

\* Lines 50-65: openai.chat.completions.create settles.  It rejects, or it
\* answers without a choice (choices[0].message then throws), or it answers:
\* the reply is pushed and chat.save() is issued.
TextVendor(h) ==
  /\ req[h].pc = "vendor"
  /\ req[h].mode = "text"
  /\ \E outcome \in {"ok", "nochoice", "reject"} :
       req' = [req EXCEPT ![h] =
                 IF outcome = "ok"
                   THEN [@ EXCEPT !.reply = TextReply(VendorMessage),
                                  !.chat.messages =
                                     Push(@, TextReply(VendorMessage)),
                                  !.pc = "save"]
                   ELSE Catch(@, "vendor")]
  /\ ServerUnchanged
  /\ UNCHANGED <<sidebarVars, creditVars, chatBoxVars, gallery>>

\* Lines 115-121: axios.get of the generation url settles; on success
\* imagekit.upload is called.
ImageFetch(h) ==
  /\ req[h].pc = "vendor"
  /\ req[h].mode = "image"
  /\ \E outcome \in {"ok", "reject"} :
       req' = [req EXCEPT ![h] =
                 IF outcome = "ok"
                   THEN [@ EXCEPT !.vendorCalls = 2, !.pc = "upload"]
                   ELSE Catch(@, "vendor")]
  /\ ServerUnchanged
  /\ UNCHANGED <<sidebarVars, creditVars, chatBoxVars, gallery>>

\* Lines 121-137: imagekit.upload settles; on success the reply is pushed and
\* chat.save() is issued.
ImageUpload(h) ==
  /\ req[h].pc = "upload"
  /\ \E outcome \in {"ok", "reject"} :
       req' = [req EXCEPT ![h] =
                 IF outcome = "ok"
                   THEN [@ EXCEPT
                           !.reply = ImageReply(UploadUrl, req[h].isPublished),
                           !.chat.messages =
                              Push(@, ImageReply(UploadUrl, req[h].isPublished)),
                           !.pc = "save"]
                   ELSE Catch(@, "vendor")]
  /\ ServerUnchanged
  /\ UNCHANGED <<sidebarVars, creditVars, chatBoxVars, gallery>>

\* Mutant: the handler answers 200 as soon as the chat is saved and leaves
\* the credits alone.
SaveChatResponds(h) ==
  /\ req[h].pc = "save"
  /\ \E outcome \in {"ok", "reject"} :
       IF outcome = "ok"
         THEN /\ Chat' = Save(Chat, req[h].chat)
              /\ req' = [req EXCEPT ![h] =
                           Answer([@ EXCEPT !.saved = TRUE,
                                            !.wrote = Chat'[req[h].chat._id].messages],
                                  200)]
         ELSE /\ Chat' = Chat
              /\ req' = [req EXCEPT ![h] = Catch(@, "save")]
  /\ UNCHANGED <<credits, credits0, sends, ok200>>
  /\ UNCHANGED <<sidebarVars, creditVars, chatBoxVars, gallery>>

\* Lines 65-66 / 137-140: chat.save() settles; on success User.updateOne is
\* issued, on failure the catch answers 500.
SaveChat(h) ==
  /\ req[h].pc = "save"
  /\ \E outcome \in {"ok", "reject"} :
       IF outcome = "ok"
         THEN /\ Chat' = Save(Chat, req[h].chat)
              /\ req' = [req EXCEPT ![h] =
                           [@ EXCEPT !.saved = TRUE,
                                     !.wrote = Chat'[req[h].chat._id].messages,
                                     !.pc = "dec"]]
         ELSE /\ Chat' = Chat
              /\ req' = [req EXCEPT ![h] = Catch(@, "save")]
  /\ UNCHANGED <<credits, credits0, sends, ok200>>
  /\ UNCHANGED <<sidebarVars, creditVars, chatBoxVars, gallery>>

\* Mutant: the update carries the pre-check as a filter
\* ({ _id, credits: { $gte: cost } }), so it changes nothing when the stored
\* balance no longer covers the cost.
DecrementCreditsIfSufficient(h) ==
  /\ req[h].pc = "dec"
  /\ credits' = [credits EXCEPT ![req[h].user] =
                   IF @ >= DecAmount(req[h].mode)
                     THEN @ - DecAmount(req[h].mode) ELSE @]
  /\ req' = [req EXCEPT ![h] = [@ EXCEPT !.charged = TRUE, !.pc = "respond"]]
  /\ UNCHANGED <<credits0, Chat, sends, ok200>>
  /\ UNCHANGED <<sidebarVars, creditVars, chatBoxVars, gallery>>

\* Mutant: a failed update restores the chat the handler had read.
DecrementCreditsRollback(h) ==
  /\ req[h].pc = "dec"
  /\ \E outcome \in {"ok", "reject"} :
       IF outcome = "ok"
         THEN /\ credits' = [credits EXCEPT ![req[h].user] =
                               @ - DecAmount(req[h].mode)]
              /\ Chat' = Chat
              /\ req' = [req EXCEPT ![h] =
                           [@ EXCEPT !.charged = TRUE, !.pc = "respond"]]
         ELSE /\ credits' = credits
              /\ Chat' = [Chat EXCEPT ![req[h].chat._id].messages =
                                          req[h].read]
              /\ req' = [req EXCEPT ![h] = Catch(@, "updateOne")]
  /\ UNCHANGED <<credits0, sends, ok200>>
  /\ UNCHANGED <<sidebarVars, creditVars, chatBoxVars, gallery>>

\* Lines 66-72 / 140-143: User.updateOne({ $inc: { credits: -cost } })
\* settles; on failure the catch answers 500.
DecrementCredits(h) ==
  /\ req[h].pc = "dec"
  /\ \E outcome \in {"ok", "reject"} :
       IF outcome = "ok"
         THEN /\ credits' = [credits EXCEPT ![req[h].user] =
                               @ - DecAmount(req[h].mode)]
              /\ req' = [req EXCEPT ![h] =
                           [@ EXCEPT !.charged = TRUE, !.pc = "respond"]]
         ELSE /\ credits' = credits
              /\ req' = [req EXCEPT ![h] = Catch(@, "updateOne")]
  /\ UNCHANGED <<credits0, Chat, sends, ok200>>
  /\ UNCHANGED <<sidebarVars, creditVars, chatBoxVars, gallery>>

\* Lines 72 / 143: res.status(200).json({ success: true, reply }).
Respond200(h) ==
  /\ req[h].pc = "respond"
  /\ req' = [req EXCEPT ![h] = Answer(@, 200)]
  /\ ok200' = [ok200 EXCEPT ![req[h].user][req[h].mode] = @ + 1]
  /\ UNCHANGED <<credits, credits0, Chat, sends>>
  /\ UNCHANGED <<sidebarVars, creditVars, chatBoxVars, gallery>>

ServerNext ==
  \E h \in Handlers :
    \/ Receive(h)
    \/ CheckRequest(h)
    \/ FindChat(h)
    \/ TextVendor(h)
    \/ ImageFetch(h)
    \/ ImageUpload(h)
    \/ SaveChat(h)
    \/ DecrementCredits(h)
    \/ Respond200(h)



----------------------------------------------------------------------------
(* The credit controllers: src/server/controllers/creditController.js *)

\* const plans, lines 6-28 (the features are not read by the controllers).
plans ==
  <<[_id |-> "basic", name |-> "Basic", price |-> 10, credits |-> 100],
    [_id |-> "pro", name |-> "Pro", price |-> 20, credits |-> 500],
    [_id |-> "premium", name |-> "Premium", price |-> 30, credits |-> 1000]>>

\* req.body.planId as clients may send it.
PlanIdInputs == {Undefined, "basic", "pro", "premium", "gold"}

\* The requests the credit router serves.
CreditRoutes == {"plans", "purchase"}

\* Mutant: find answers with the first plan when none matches.
FindPlanOrFirst(planId) ==
  IF \E i \in 1..Len(plans) : plans[i]._id = planId
    THEN plans[CHOOSE i \in 1..Len(plans) : plans[i]._id = planId]
    ELSE plans[1]

\* plans.find(plan => plan._id === planId), line 51: the first match, or
\* undefined.
FindPlan(planId) ==
  IF \E i \in 1..Len(plans) : plans[i]._id = planId
    THEN plans[CHOOSE i \in 1..Len(plans) :
                 /\ plans[i]._id = planId
                 /\ \A j \in 1..(i - 1) : plans[j]._id # planId]
    ELSE Null

\* Mutant: the transaction is stored as paid.
TransactionDocPaid(userId, plan) ==
  [userId |-> userId, planId |-> plan._id, amount |-> plan.price,
   credits |-> plan.credits, isPaid |-> TRUE]

\* The document given to Transaction.create, lines 59-65.
TransactionDoc(userId, plan) ==
  [userId |-> userId, planId |-> plan._id, amount |-> plan.price,
   credits |-> plan.credits, isPaid |-> FALSE]

\* res.json(body) without res.status: Express answers with status 200.
DefaultStatus == 200

\* The locals of a credit handler before a request.
IdlePay ==
  [pc |-> "idle", route |-> "plans", user |-> "u1", planId |-> Undefined,
   plan |-> Null, status |-> 0, body |-> Null, responses |-> 0,
   created |-> <<>>, error |-> "none"]

\* res.json(body): the response is sent.
PayAnswer(p, body) ==
  [p EXCEPT !.status = DefaultStatus, !.body = body, !.responses = @ + 1]

CreditInit ==
  /\ Transaction = <<>>
  /\ pay = IdlePay

\* A request arrives at the credit router; the auth middleware has put the
\* user on req.user.  It counts as one of the requests the server receives.
PayReceive ==
  /\ pay.pc \in {"idle", "done", "returned"}
  /\ sends < MaxSends
  /\ \E u \in Senders, route \in CreditRoutes, planId \in PlanIdInputs :
       /\ route = "plans" => planId = Undefined
       /\ pay' = [IdlePay EXCEPT !.pc = route, !.route = route, !.user = u,
                                 !.planId = planId]
  /\ sends' = sends + 1
  /\ UNCHANGED <<credits, credits0, Chat, req, ok200, Transaction>>
  /\ UNCHANGED <<sidebarVars, chatBoxVars, gallery>>

\* getPlans, lines 31-42.
GetPlans ==
  /\ pay.pc = "plans"
  /\ pay' = [PayAnswer(pay, [sucess |-> TRUE, plans |-> plans])
               EXCEPT !.pc = "done"]
  /\ UNCHANGED <<serverVars, Transaction>>
  /\ UNCHANGED <<sidebarVars, chatBoxVars, gallery>>

\* purchasePlan, lines 47-59: the plan is looked up; without a plan the
\* handler answers and returns, with a plan Transaction.create is issued.
PurchaseLookup ==
  /\ pay.pc = "purchase"
  /\ LET plan == FindPlan(pay.planId)
     IN pay' = IF plan = Null
                 THEN [PayAnswer(pay, [sucess |-> FALSE,
                                       message |-> " Invalid plan "])
                         EXCEPT !.pc = "done"]
                 ELSE [pay EXCEPT !.pc = "create", !.plan = plan]
  /\ UNCHANGED <<serverVars, Transaction>>
  /\ UNCHANGED <<sidebarVars, chatBoxVars, gallery>>

\* purchasePlan, lines 59-73: Transaction.create settles.  Resolved: the
\* document is stored and the handler returns, lines 66-68 hold no
\* statement.  Rejected: the catch block answers.
PurchaseCreate ==
  /\ pay.pc = "create"
  /\ \E outcome \in {"resolve", "reject"} :
       IF outcome = "resolve"
         THEN LET doc == TransactionDoc(pay.user, pay.plan)
              IN /\ Transaction' = Append(Transaction, doc)
                 /\ pay' = [pay EXCEPT !.pc = "returned",
                                       !.created = Append(@, doc)]
         ELSE /\ Transaction' = Transaction
              /\ pay' = [PayAnswer(pay, [sucess |-> FALSE,
                                         message |-> "Transaction.create failed"])
                           EXCEPT !.pc = "done", !.error = "create"]
  /\ UNCHANGED serverVars
  /\ UNCHANGED <<sidebarVars, chatBoxVars, gallery>>

CreditNext ==
  \/ PayReceive
  \/ GetPlans
  \/ PurchaseLookup
  \/ PurchaseCreate


----------------------------------------------------------------------------
(* getPublishedImages: src/server/config/db.js, lines 155-181 *)

\* The chats in the order the collection lists them.
ChatOrder == <<"c1", "c2">>

\* The userName a chat carries: the name of its owner.
UserNames == [u1 |-> "Ann", u2 |-> "Bob"]

\* Mutant: the stage matches every image, published or not.
MatchImagesOnly(m) == "isImage" \in DOMAIN m /\ m.isImage = TRUE

\* { $match: { "messages.isImage": true, "messages.isPublished": true } }:
\* a message without one of the fields does not match.
Match(m) ==
  /\ "isImage" \in DOMAIN m
  /\ m.isImage = TRUE
  /\ "isPublished" \in DOMAIN m
  /\ m.isPublished = TRUE

\* { $project: { _id: 0, imageUrl: "$messages.content", userName: "$userName" } }
Project(chat, m) ==
  [imageUrl |-> m.content, userName |-> UserNames[chat.userId]]

\* $unwind, $match and $project over the messages of one chat, from the i-th.
RECURSIVE Unwound(_, _)
Unwound(chat, i) ==
  IF i > Len(chat.messages) THEN <<>>
  ELSE (IF Match(chat.messages[i])
          THEN <<Project(chat, chat.messages[i])>> ELSE <<>>)
         \o Unwound(chat, i + 1)

\* Chat.aggregate([...]) over the chats from the k-th of the collection.
RECURSIVE Aggregate(_, _)
Aggregate(db, k) ==
  IF k > Len(ChatOrder) THEN <<>>
  ELSE Unwound(db[ChatOrder[k]], 1) \o Aggregate(db, k + 1)

\* Array.prototype.reverse
Reverse(list) == [i \in 1..Len(list) |-> list[Len(list) + 1 - i]]

\* No request for the published images is in hand.
IdleGallery == [pc |-> "idle", status |-> 0, body |-> Null]

GalleryInit == gallery = IdleGallery

\* A request for the published images arrives and the aggregation is issued,
\* lines 156-158.  It counts as one of the requests the server receives.
GalleryReceive ==
  /\ gallery.pc \in {"idle", "done"}
  /\ sends < MaxSends
  /\ gallery' = [IdleGallery EXCEPT !.pc = "aggregate"]
  /\ sends' = sends + 1
  /\ UNCHANGED <<credits, credits0, Chat, req, ok200>>
  /\ UNCHANGED <<sidebarVars, creditVars, chatBoxVars>>

\* The aggregation settles, lines 158-181: resolved, the entries are sent in
\* reverse order; rejected, the catch answers 500.
GallerySettles ==
  /\ gallery.pc = "aggregate"
  /\ \E outcome \in {"resolve", "reject"} :
       gallery' =
         IF outcome = "resolve"
           THEN [pc |-> "done", status |-> DefaultStatus,
                 body |-> [success |-> TRUE,
                           images |-> Reverse(Aggregate(Chat, 1))]]
           ELSE [pc |-> "done", status |-> 500,
                 body |-> [success |-> FALSE, message |-> "error.message"]]
  /\ UNCHANGED serverVars
  /\ UNCHANGED <<sidebarVars, creditVars, chatBoxVars>>

GalleryNext == GalleryReceive \/ GallerySettles

----------------------------------------------------------------------------
(* The Sidebar: data *)

\* Clicks on the New Chat button in one behaviour.
MaxClicks == 1

\* Changes of the user object in one behaviour: the login, then every
\* setUser of the ChatBox.
MaxUserChanges == 2

\* Auto-delete timeout in minutes.
AUTO_DELETE_MINUTES == 15

\* Chats the server stores for the user in one behaviour, deleted ones
\* included: createNewChat fails once that many were created.
MaxChats == 2

\* The ids the server gives to chats.
ClientChatIds == 1..MaxChats

\* A chat id the server does not store.
NoChat == [exists |-> FALSE, messages |-> <<>>, updatedAt |-> 0]

\* The message contents the ChatBox sends: the controllers reject an empty
\* prompt and accept one of blanks.
MessageContents == {"hi", " "}

\* String.prototype.trim on those contents.
Trim(str) == IF str = " " THEN "" ELSE str

\* The chat object the API returns for a stored chat.
ChatObject(store, id) ==
  [_id |-> id, messages |-> store[id].messages,
   updatedAt |-> store[id].updatedAt]

RECURSIVE ByUpdatedAtDesc(_, _)
ByUpdatedAtDesc(store, ids) ==
  IF ids = {} THEN <<>>
  ELSE LET m == CHOOSE i \in ids :
                  \A j \in ids : store[j].updatedAt <= store[i].updatedAt
       IN <<ChatObject(store, m)>> \o ByUpdatedAtDesc(store, ids \ {m})

\* The user's chats as GET /api/chat/get lists them, the latest first.
ServerList(store) ==
  ByUpdatedAtDesc(store, {i \in ClientChatIds : store[i].exists})

\* prev.filter((c) => c._id !== chatId)
Filter(list, chatId) == SelectSeq(list, LAMBDA c : c._id # chatId)

\* [created, ...prev.filter((c) => c._id !== created._id)]
Prepend(created, list) == <<created>> \o Filter(list, created._id)

\* (chats || []).find((c) => c._id === chatId) finds a chat.
Found(list, chatId) == \E i \in 1..Len(list) : list[i]._id = chatId

Find(list, chatId) ==
  list[CHOOSE i \in 1..Len(list) :
         /\ list[i]._id = chatId
         /\ \A j \in 1..(i - 1) : list[j]._id # chatId]

\* list.slice().sort((a, b) => new Date(b.updatedAt) - new Date(a.updatedAt))[0]:
\* the sort is stable, so the first of the latest ones.
Newest(list) ==
  list[CHOOSE i \in 1..Len(list) :
         /\ \A j \in 1..Len(list) : list[j].updatedAt <= list[i].updatedAt
         /\ \A j \in 1..(i - 1) : list[j].updatedAt < list[i].updatedAt]

\* The timer callback's test, lines 46-52: no messages, or a first message
\* whose trimmed content is empty.
StillEmpty(currentChat) ==
  LET hasMessages == Len(currentChat.messages) > 0
      firstMessageContentEmpty ==
        IF hasMessages THEN Trim(currentChat.messages[1].content) = ""
        ELSE TRUE
  IN ~hasMessages \/ firstMessageContentEmpty

----------------------------------------------------------------------------
(* The Sidebar: timers *)

\* deletionTimersRef.current, the pending timeouts and the next timeout id.
Timers == [ref |-> deletionTimersRef, timeouts |-> timeouts, next |-> nextTimeout]

SetTimers(T) ==
  /\ deletionTimersRef' = T.ref
  /\ timeouts' = T.timeouts
  /\ nextTimeout' = T.next

\* cleanupTimer(chatId): clearTimeout of the id in the map, then the entry is
\* deleted.
cleanupTimer(T, chatId) ==
  IF T.ref[chatId] # 0
    THEN [T EXCEPT !.timeouts = {x \in @ : x.id # T.ref[chatId]},
                   !.ref[chatId] = 0]
    ELSE T

\* Mutant: the timeout is set without the look into the map.
scheduleDeletionAlways(T, chatId, ms, closure) ==
  [T EXCEPT
     !.timeouts = @ \cup {[id |-> T.next, chatId |-> chatId, ms |-> ms,
                           chats |-> closure, since |-> clock]},
     !.ref[chatId] = T.next,
     !.next = @ + 1]

\* scheduleDeletionForEmptyChat(chatId, ms) of a render whose `chats` is
\* `closure`: the callback of the timeout keeps that `chats`.  `since` notes
\* the server's clock at the scheduling.
scheduleDeletionForEmptyChat(T, chatId, ms, closure) ==
  IF T.ref[chatId] # 0 THEN T
  ELSE [T EXCEPT
          !.timeouts = @ \cup {[id |-> T.next, chatId |-> chatId, ms |-> ms,
                                chats |-> closure, since |-> clock]},
          !.ref[chatId] = T.next,
          !.next = @ + 1]

\* The effect on [chats], lines 91-102: the timers of the chats of the new
\* list that have messages are cleaned up.
TimerCancelEffect(T, list) ==
  LET stale == {c \in ClientChatIds :
                  /\ T.ref[c] # 0
                  /\ \E i \in 1..Len(list) :
                       list[i]._id = c /\ Len(list[i].messages) > 0}
  IN [T EXCEPT
        !.timeouts = {x \in @ : \A c \in stale : x.id # T.ref[c]},
        !.ref = [c \in ClientChatIds |-> IF c \in stale THEN 0 ELSE @[c]]]

\* The default delay of a timer, in milliseconds.
DefaultMs == AUTO_DELETE_MINUTES * 60 * 1000

----------------------------------------------------------------------------
(* The Sidebar: what the server and the context do *)

\* The server creates a chat: POST /api/chat/create.
ServerCreates(createdBy) ==
  /\ nextChat \in ClientChatIds
  /\ serverChats' = [serverChats EXCEPT ![nextChat] =
                       [exists |-> TRUE, messages |-> <<>>, updatedAt |-> clock]]
  /\ nextChat' = nextChat + 1
  /\ clock' = clock + 1
  /\ origin' = [origin EXCEPT ![nextChat] = createdBy]

\* The server deletes a chat: POST /api/chat/delete answered with success.
ServerDeletes(chatId) ==
  /\ serverChats' = [serverChats EXCEPT ![chatId] = NoChat]
  /\ UNCHANGED <<nextChat, clock, origin>>

ServerSame == UNCHANGED <<serverChats, nextChat, clock, origin>>

\* The log of a chat for which no timer has fired and which the user has not
\* deleted.
NothingLogged ==
  [firedEmpty |-> FALSE, requested |-> FALSE, messagedSince |-> FALSE,
   handDeleted |-> FALSE, requestedAfterDelete |-> FALSE]

\* A mounted Sidebar that has scheduled nothing yet: `changes` counts the
\* changes of the user object so far, `runs` are the runs of the auto-create
\* effect in flight, `earlier` says what the user may have stored in an
\* earlier session: no chat, an empty chat or a chat with messages.
Mounted(changes, runs, earlier) ==
  /\ user = changes
  /\ chats = <<>>
  /\ selectedChat = 0
  /\ autoCreated = FALSE
  /\ deletionTimersRef = [c \in ClientChatIds |-> 0]
  /\ timeouts = {}
  /\ nextTimeout = 1
  /\ clicks = 0
  /\ newChat = [pc |-> "idle", chats |-> <<>>]
  /\ effectRuns = runs
  /\ callbacks = {}
  /\ deleting = [pc |-> "idle", chatId |-> 0]
  /\ \E before \in earlier :
       /\ serverChats =
            [c \in ClientChatIds |->
               IF c = 1 /\ before # "none"
                 THEN [exists |-> TRUE,
                       messages |-> IF before = "used"
                                      THEN <<[role |-> "user", content |-> "hi"],
                                             [role |-> "assistant",
                                              content |-> "answer"]>>
                                      ELSE <<>>,
                       updatedAt |-> 1]
                 ELSE NoChat]
       /\ nextChat = IF before = "none" THEN 1 ELSE 2
       /\ origin = [c \in ClientChatIds |->
                      IF c = 1 /\ before # "none" THEN "before" ELSE "none"]
  /\ clock = 2
  /\ timerLog = [c \in ClientChatIds |-> NothingLogged]

\* The Sidebar before the login.
SidebarInit == Mounted(0, {}, {"none", "empty", "used"})

----------------------------------------------------------------------------
(* The Sidebar: operations *)

\* The user object of the context changes: the login, or setUser after a
\* send (ChatBox.onSubmit).  The effect on [user], lines 149-210, runs again:
\* the cleanup of the run before sets its `cancelled`, and a new run starts
\* unless the render's autoCreated is set.  The run keeps the render's chats.
UserChanges ==
  /\ user < MaxUserChanges
  /\ user' = user + 1
  /\ effectRuns' =
       {[r EXCEPT !.cancelled = TRUE] : r \in effectRuns}
         \cup (IF autoCreated THEN {}
               ELSE {[run |-> user + 1, pc |-> "create", cancelled |-> FALSE,
                      chats |-> chats]})
  /\ ServerSame
  /\ UNCHANGED <<chats, selectedChat, autoCreated, deletionTimersRef, timeouts,
                 nextTimeout, clicks, newChat, callbacks, deleting, timerLog>>
  /\ UNCHANGED <<serverVars, creditVars, chatBoxVars, gallery>>

\* Lines 157-171 and 199-203: createNewChat() of the context settles.  It
\* throws, or the server has created a chat and the call returns the chat or
\* nothing.
AutoCreateSettles(r) ==
  /\ r \in effectRuns
  /\ r.pc = "create"
  /\ \E outcome \in {"chat", "nothing", "throw"} :
       IF outcome = "throw"
         THEN /\ autoCreated' = TRUE
              /\ effectRuns' = effectRuns \ {r}
              /\ ServerSame
              /\ UNCHANGED <<chats, selectedChat, deletionTimersRef, timeouts,
                             nextTimeout>>
         ELSE /\ ServerCreates("auto")
              /\ LET created == ChatObject(serverChats', nextChat)
                 IN IF ~r.cancelled /\ outcome = "chat"
                      THEN /\ chats' = Prepend(created, chats)
                           /\ selectedChat' = created._id
                           /\ SetTimers(TimerCancelEffect(
                                scheduleDeletionForEmptyChat(
                                  Timers, created._id, DefaultMs, r.chats),
                                chats'))
                           /\ autoCreated' = TRUE
                           /\ effectRuns' = effectRuns \ {r}
                    ELSE IF ~r.cancelled
                      THEN /\ effectRuns' =
                                (effectRuns \ {r}) \cup {[r EXCEPT !.pc = "fetch"]}
                           /\ UNCHANGED <<chats, selectedChat, autoCreated,
                                          deletionTimersRef, timeouts,
                                          nextTimeout>>
                    ELSE /\ autoCreated' = TRUE
                         /\ effectRuns' = effectRuns \ {r}
                         /\ UNCHANGED <<chats, selectedChat, deletionTimersRef,
                                        timeouts, nextTimeout>>
  /\ UNCHANGED <<user, clicks, newChat, callbacks, deleting, timerLog>>
  /\ UNCHANGED <<serverVars, creditVars, chatBoxVars, gallery>>

\* Lines 174-203: fetchUserChats() settles.  It throws, or the context has
\* put the server's list into chats and the call returns that list or
\* nothing; without a list the run falls back to the chats of its render.
AutoCreateFetched(r) ==
  /\ r \in effectRuns
  /\ r.pc = "fetch"
  /\ \E outcome \in {"array", "nothing", "throw"} :
       IF outcome = "throw"
         THEN UNCHANGED <<chats, selectedChat, deletionTimersRef, timeouts,
                          nextTimeout>>
         ELSE LET latest == ServerList(serverChats)
                  latestChats == IF outcome = "array" THEN latest ELSE r.chats
              IN IF Len(latestChats) > 0
                   THEN /\ chats' = Prepend(Newest(latestChats), latest)
                        /\ selectedChat' = Newest(latestChats)._id
                        /\ SetTimers(TimerCancelEffect(
                             scheduleDeletionForEmptyChat(
                               Timers, Newest(latestChats)._id, DefaultMs,
                               r.chats),
                             chats'))
                   ELSE /\ chats' = latest
                        /\ SetTimers(TimerCancelEffect(Timers, chats'))
                        /\ UNCHANGED selectedChat
  /\ autoCreated' = TRUE
  /\ effectRuns' = effectRuns \ {r}
  /\ ServerSame
  /\ UNCHANGED <<user, clicks, newChat, callbacks, deleting, timerLog>>
  /\ UNCHANGED <<serverVars, creditVars, chatBoxVars, gallery>>

\* The New Chat button: handleCreateNewChat() of the current render starts
\* and calls createNewChat(), lines 105-108.
NewChatClick ==
  /\ user # 0
  /\ newChat.pc = "idle"
  /\ clicks < MaxClicks
  /\ clicks' = clicks + 1
  /\ newChat' = [pc |-> "create", chats |-> chats]
  /\ ServerSame
  /\ UNCHANGED <<user, chats, selectedChat, autoCreated, deletionTimersRef,
                 timeouts, nextTimeout, effectRuns, callbacks, deleting,
                 timerLog>>
  /\ UNCHANGED <<serverVars, creditVars, chatBoxVars, gallery>>

\* Lines 108-143: createNewChat() settles in handleCreateNewChat.
NewChatSettles ==
  /\ newChat.pc = "create"
  /\ \E outcome \in {"chat", "nothing", "throw"} :
       IF outcome = "throw"
         THEN /\ newChat' = [pc |-> "idle", chats |-> <<>>]
              /\ ServerSame
              /\ UNCHANGED <<chats, selectedChat, deletionTimersRef, timeouts,
                             nextTimeout>>
         ELSE /\ ServerCreates("button")
              /\ LET createdChat == ChatObject(serverChats', nextChat)
                 IN IF outcome = "chat"
                      THEN /\ chats' = Prepend(createdChat, chats)
                           /\ selectedChat' = createdChat._id
                           /\ SetTimers(TimerCancelEffect(
                                scheduleDeletionForEmptyChat(
                                  Timers, createdChat._id,
                                  AUTO_DELETE_MINUTES * 60 * 1000, newChat.chats),
                                chats'))
                           /\ newChat' = [pc |-> "idle", chats |-> <<>>]
                      ELSE /\ newChat' = [newChat EXCEPT !.pc = "fetch"]
                           /\ UNCHANGED <<chats, selectedChat, deletionTimersRef,
                                          timeouts, nextTimeout>>
  /\ UNCHANGED <<user, autoCreated, clicks, effectRuns, callbacks, deleting,
                 timerLog>>
  /\ UNCHANGED <<serverVars, creditVars, chatBoxVars, gallery>>

\* Lines 113-139: fetchUserChats() settles in handleCreateNewChat.
NewChatFetched ==
  /\ newChat.pc = "fetch"
  /\ \E outcome \in {"array", "nothing", "throw"} :
       IF outcome = "throw"
         THEN UNCHANGED <<chats, selectedChat, deletionTimersRef, timeouts,
                          nextTimeout>>
         ELSE LET latest == ServerList(serverChats)
                  latestChats == IF outcome = "array" THEN latest
                                 ELSE newChat.chats
              IN IF Len(latestChats) > 0
                   THEN /\ chats' = Prepend(Newest(latestChats), latest)
                        /\ selectedChat' = Newest(latestChats)._id
                        /\ SetTimers(TimerCancelEffect(
                             scheduleDeletionForEmptyChat(
                               Timers, Newest(latestChats)._id,
                               AUTO_DELETE_MINUTES * 60 * 1000, newChat.chats),
                             chats'))
                   ELSE /\ chats' = latest
                        /\ SetTimers(TimerCancelEffect(Timers, chats'))
                        /\ UNCHANGED selectedChat
  /\ newChat' = [pc |-> "idle", chats |-> <<>>]
  /\ ServerSame
  /\ UNCHANGED <<user, autoCreated, clicks, effectRuns, callbacks, deleting,
                 timerLog>>
  /\ UNCHANGED <<serverVars, creditVars, chatBoxVars, gallery>>

\* A timeout expires and its callback runs, lines 37-59 and 74-76: the chat
\* is looked up in the chats the callback closed over.  Not found there, or
\* found with messages: the timer is cleaned up.  Found empty: the delete
\* request is sent.
\* timerLog keeps, for the last timer of each chat that fired, whether the
\* server's chat was empty then, whether it had received a message since the
\* timer was scheduled and whether the request was sent; and whether a
\* request was ever sent after the user had deleted the chat.
TimerFires(t) ==
  /\ t \in timeouts
  /\ LET fired == [Timers EXCEPT !.timeouts = @ \ {t}]
         sends_ == Found(t.chats, t.chatId)
                     /\ StillEmpty(Find(t.chats, t.chatId))
     IN /\ IF sends_
             THEN /\ callbacks' = callbacks \cup
                                    {[id |-> t.id, chatId |-> t.chatId,
                                      pc |-> "post"]}
                  /\ SetTimers(fired)
             ELSE /\ callbacks' = callbacks
                  /\ SetTimers(cleanupTimer(fired, t.chatId))
        /\ timerLog' = [timerLog EXCEPT ![t.chatId] =
                          [@ EXCEPT
                             !.firedEmpty = /\ serverChats[t.chatId].exists
                                            /\ serverChats[t.chatId].messages = <<>>,
                             !.messagedSince =
                                /\ serverChats[t.chatId].messages # <<>>
                                /\ serverChats[t.chatId].updatedAt >= t.since,
                             !.requested = sends_,
                             !.requestedAfterDelete = @ \/ (sends_ /\ timerLog[t.chatId].handDeleted)]]
  /\ ServerSame
  /\ UNCHANGED <<user, chats, selectedChat, autoCreated, clicks, newChat,
                 effectRuns, deleting>>
  /\ UNCHANGED <<serverVars, creditVars, chatBoxVars, gallery>>

\* Lines 55-76: the delete request of a timer callback is answered.  With
\* success the chat leaves the list and fetchUserChats() is awaited; else the
\* timer is cleaned up.
AutoDeleteAnswered(cb) ==
  /\ cb \in callbacks
  /\ cb.pc = "post"
  /\ \E outcome \in {"success", "failure", "throw"} :
       IF outcome = "success"
         THEN /\ ServerDeletes(cb.chatId)
              /\ chats' = Filter(chats, cb.chatId)
              /\ SetTimers(TimerCancelEffect(Timers, chats'))
              /\ callbacks' = (callbacks \ {cb}) \cup {[cb EXCEPT !.pc = "fetch"]}
         ELSE /\ ServerSame
              /\ chats' = chats
              /\ SetTimers(cleanupTimer(Timers, cb.chatId))
              /\ callbacks' = callbacks \ {cb}
  /\ UNCHANGED <<user, selectedChat, autoCreated, clicks, newChat, effectRuns,
                 deleting, timerLog>>
  /\ UNCHANGED <<serverVars, creditVars, chatBoxVars, gallery>>

\* Lines 63-76: fetchUserChats() settles in a timer callback; then the finally
\* block cleans the timer up.
AutoDeleteFetched(cb) ==
  /\ cb \in callbacks
  /\ cb.pc = "fetch"
  /\ \E outcome \in {"done", "throw"} :
       /\ chats' = IF outcome = "done" THEN ServerList(serverChats) ELSE chats
       /\ SetTimers(LET T == cleanupTimer(Timers, cb.chatId)
                    IN IF outcome = "done" THEN TimerCancelEffect(T, chats')
                       ELSE T)
  /\ callbacks' = callbacks \ {cb}
  /\ ServerSame
  /\ UNCHANGED <<user, selectedChat, autoCreated, clicks, newChat, effectRuns,
                 deleting, timerLog>>
  /\ UNCHANGED <<serverVars, creditVars, chatBoxVars, gallery>>

\* deleteChat(e, chatId), lines 218-228: the user is asked; a confirmed
\* delete sends the request, a declined one returns at line 222 and leaves
\* everything as it is.
DeleteChatClick(chatId) ==
  /\ Found(chats, chatId)
  /\ deleting.pc = "idle"
  /\ \E confirmDelete \in BOOLEAN :
       deleting' = IF confirmDelete
                     THEN [deleting EXCEPT !.pc = "post", !.chatId = chatId]
                     ELSE deleting
  /\ ServerSame
  /\ UNCHANGED <<user, chats, selectedChat, autoCreated, deletionTimersRef,
                 timeouts, nextTimeout, clicks, newChat, effectRuns, callbacks,
                 timerLog>>
  /\ UNCHANGED <<serverVars, creditVars, chatBoxVars, gallery>>

\* Lines 224-241: the delete request of deleteChat is answered.  timerLog
\* notes a chat the user has deleted.
DeleteChatAnswered ==
  /\ deleting.pc = "post"
  /\ \E outcome \in {"success", "failure", "throw"} :
       IF outcome = "success"
         THEN /\ ServerDeletes(deleting.chatId)
              /\ chats' = Filter(chats, deleting.chatId)
              /\ SetTimers(TimerCancelEffect(
                             cleanupTimer(Timers, deleting.chatId), chats'))
              /\ deleting' = [deleting EXCEPT !.pc = "fetch"]
              /\ timerLog' = [timerLog EXCEPT
                                ![deleting.chatId].handDeleted = TRUE]
         ELSE /\ ServerSame
              /\ deleting' = [deleting EXCEPT !.pc = "idle", !.chatId = 0]
              /\ UNCHANGED <<chats, deletionTimersRef, timeouts, nextTimeout,
                             timerLog>>
  /\ UNCHANGED <<user, selectedChat, autoCreated, clicks, newChat, effectRuns,
                 callbacks>>
  /\ UNCHANGED <<serverVars, creditVars, chatBoxVars, gallery>>

\* Lines 234-241: fetchUserChats() settles in deleteChat.
DeleteChatFetched ==
  /\ deleting.pc = "fetch"
  /\ \E outcome \in {"done", "throw"} :
       IF outcome = "done"
         THEN /\ chats' = ServerList(serverChats)
              /\ SetTimers(TimerCancelEffect(Timers, chats'))
         ELSE UNCHANGED <<chats, deletionTimersRef, timeouts, nextTimeout>>
  /\ deleting' = [deleting EXCEPT !.pc = "idle", !.chatId = 0]
  /\ ServerSame
  /\ UNCHANGED <<user, selectedChat, autoCreated, clicks, newChat, effectRuns,
                 callbacks, timerLog>>
  /\ UNCHANGED <<serverVars, creditVars, chatBoxVars, gallery>>

\* A send from the ChatBox to the selected chat is answered 200: the server
\* has saved the user message and the reply.  The ChatBox puts them into its
\* own messages state, not into chats.
MessageSaved ==
  /\ user # 0
  /\ selectedChat # 0
  /\ serverChats[selectedChat].exists
  /\ serverChats[selectedChat].messages = <<>>
  /\ \E content \in MessageContents :
       serverChats' = [serverChats EXCEPT ![selectedChat] =
                         [exists |-> TRUE,
                          messages |-> <<[role |-> "user", content |-> content],
                                         [role |-> "assistant",
                                          content |-> "answer"]>>,
                          updatedAt |-> clock]]
  /\ clock' = clock + 1
  /\ UNCHANGED <<nextChat, origin>>
  /\ UNCHANGED <<user, chats, selectedChat, autoCreated, deletionTimersRef,
                 timeouts, nextTimeout, clicks, newChat, effectRuns, callbacks,
                 deleting, timerLog>>
  /\ UNCHANGED <<serverVars, creditVars, chatBoxVars, gallery>>

\* The context reloads the chats of the user on its own (fetchUserChats).
ContextReloads ==
  /\ user # 0
  /\ chats' = ServerList(serverChats)
  /\ chats' # chats
  /\ SetTimers(TimerCancelEffect(Timers, chats'))
  /\ ServerSame
  /\ UNCHANGED <<user, selectedChat, autoCreated, clicks, newChat, effectRuns,
                 callbacks, deleting, timerLog>>
  /\ UNCHANGED <<serverVars, creditVars, chatBoxVars, gallery>>

SidebarNext ==
  \/ UserChanges
  \/ \E r \in effectRuns : AutoCreateSettles(r)
  \/ \E r \in effectRuns : AutoCreateFetched(r)
  \/ NewChatClick
  \/ NewChatSettles
  \/ NewChatFetched
  \/ \E t \in timeouts : TimerFires(t)
  \/ \E cb \in callbacks : AutoDeleteAnswered(cb)
  \/ \E cb \in callbacks : AutoDeleteFetched(cb)
  \/ \E c \in ClientChatIds : DeleteChatClick(c)
  \/ DeleteChatAnswered
  \/ DeleteChatFetched
  \/ MessageSaved
  \/ ContextReloads


----------------------------------------------------------------------------
(* The ChatBox: src/client/src/components/ChatBox.jsx *)

\* The user of the client and the chats the context holds for them: the
\* chat the server stores for the user, and one the server no longer stores
\* (deleted since the list was loaded).
ClientUser == "u1"

ClientChats == {c \in StoredChatIds : ChatOwner[c] = ClientUser} \cup {"c3"}

\* The number of messages the server stores for a chat id.
StoredLen(c) == IF c \in StoredChatIds THEN Len(Chat[c].messages) ELSE 0

\* No chat is selected: selectedChat is null.
NoSelection == "none"

\* What the user types into the prompt input; the input is `required`, so
\* the form is not submitted with an empty one.
TypedPrompts == {"hi", "draw"}

\* { role: 'user', content: promptCopy, timestamp, isImage: false }, line 302.
LocalUserMessage(promptCopy) ==
  [role |-> "user", content |-> promptCopy, isImage |-> FALSE]

\* The body field isPublished as the JSON request carries it.
BodyFlag(b) == IF b THEN "true" ELSE "false"

\* axios resolves for a status of 2xx and rejects for every other one.
AxiosResolves(status) == status >= 200 /\ status < 300

\* Mutant: the client takes one credit off for every send.
ClientCostOne(mode) == 1

\* What a successful send takes off the credits of the context's user,
\* lines 312-313.
ClientCost(mode) == IF mode = "image" THEN 2 ELSE 1

\* The microphone was never started: useState(false), useRef(''), no session
\* of the recognition.
MicOff ==
  /\ listening = FALSE
  /\ committedRef = <<>>
  /\ recog = [session |-> "off", retry |-> FALSE, atStart |-> <<>>,
              final |-> <<>>]

\* No call of onSubmit is in flight.  `switched` notes that another chat was
\* selected since the last call started.
IdleSubmit ==
  [pc |-> "idle", h |-> "h1", chatId |-> NoSelection, promptCopy |-> "",
   mode |-> "text", stored |-> 0, result |-> "none", switched |-> FALSE]

ChatBoxInit ==
  /\ messages = <<>>
  /\ loading = FALSE
  /\ promptInput = ""
  /\ sendMode = "text"
  /\ publish = FALSE
  /\ shownChat = NoSelection
  /\ clientCredits = credits0[ClientUser]
  /\ chatObjects = [c \in ClientChats |-> <<>>]
  /\ submit = IdleSubmit
  /\ MicOff

\* The user types: setPrompt(value), line 201.
Type(text) ==
  /\ promptInput # text
  /\ promptInput' = text
  /\ UNCHANGED <<messages, loading, sendMode, publish, shownChat,
                 clientCredits, chatObjects, submit>>
  /\ UNCHANGED <<serverVars, sidebarVars, creditVars, gallery, speechVars>>

\* The mode select, line 397.
SetMode(m) ==
  /\ sendMode # m
  /\ sendMode' = m
  /\ UNCHANGED <<messages, loading, promptInput, publish, shownChat,
                 clientCredits, chatObjects, submit>>
  /\ UNCHANGED <<serverVars, sidebarVars, creditVars, gallery, speechVars>>

\* The publish checkbox of the image mode: setIsPublished.
SetIsPublished ==
  /\ sendMode = "image"
  /\ publish' = ~publish
  /\ UNCHANGED <<messages, loading, promptInput, sendMode, shownChat,
                 clientCredits, chatObjects, submit>>
  /\ UNCHANGED <<serverVars, sidebarVars, creditVars, gallery, speechVars>>

\* The context selects a chat; the effect on [selectedChat], line 329, shows
\* the messages of the chat object.
SelectChat(c) ==
  /\ shownChat # c
  /\ shownChat' = c
  /\ messages' = chatObjects[c]
  /\ submit' = [submit EXCEPT !.switched = TRUE]
  /\ UNCHANGED <<loading, promptInput, sendMode, publish, clientCredits,
                 chatObjects>>
  /\ UNCHANGED <<serverVars, sidebarVars, creditVars, gallery, speechVars>>

\* The handler of the server that takes the next request of the ChatBox: no
\* other request is in flight then, so every handler is free.
FreeHandler == CHOOSE h \in Handlers : req[h].pc \in {"idle", "done"}

\* onSubmit up to the await, lines 294-308: the user message is appended to
\* the local list, the prompt is cleared and the request is sent; handler h
\* of the server receives it.  The submit button is disabled while loading.
\* `stored` keeps, for the properties, the length of the server's chat at
\* that moment.
Submit(h) ==
  /\ ~loading
  /\ promptInput # ""
  /\ shownChat # NoSelection
  /\ submit.pc = "idle"
  /\ h = FreeHandler
  /\ sends < MaxSends
  /\ loading' = TRUE
  /\ messages' = Append(messages, LocalUserMessage(promptInput))
  /\ promptInput' = ""
  /\ submit' = [pc |-> "sent", h |-> h, chatId |-> shownChat,
                promptCopy |-> promptInput, mode |-> sendMode,
                stored |-> StoredLen(shownChat), result |-> "none",
                switched |-> FALSE]
  /\ req' = [req EXCEPT ![h] =
               [IdleReq EXCEPT !.pc = "start", !.user = ClientUser,
                               !.mode = sendMode,
                               !.credits = credits[ClientUser],
                               !.chatId = shownChat, !.prompt = promptInput,
                               !.isPublished = IF sendMode = "text"
                                                 THEN Undefined
                                                 ELSE BodyFlag(publish)]]
  /\ sends' = sends + 1
  /\ UNCHANGED <<credits, credits0, Chat, ok200>>
  /\ UNCHANGED <<sendMode, publish, shownChat, clientCredits, chatObjects>>
  /\ UNCHANGED <<sidebarVars, creditVars, gallery, speechVars>>

\* Mutant: a failed send takes the user message off the local list again.
DeliverRollback ==
  /\ submit.pc = "sent"
  /\ req[submit.h].pc = "done"
  /\ LET answer == req[submit.h]
     IN IF AxiosResolves(answer.status) /\ answer.body.success
          THEN /\ messages' = Append(messages, answer.body.reply)
               /\ clientCredits' = clientCredits - ClientCost(submit.mode)
               /\ submit' = [submit EXCEPT !.pc = "idle", !.result = "ok"]
          ELSE /\ messages' = SubSeq(messages, 1, Len(messages) - 1)
               /\ clientCredits' = clientCredits
               /\ submit' = [submit EXCEPT !.pc = "idle", !.result = "failed"]
  /\ loading' = FALSE
  /\ UNCHANGED <<promptInput, sendMode, publish, shownChat, chatObjects>>
  /\ UNCHANGED <<serverVars, sidebarVars, creditVars, gallery, speechVars>>

\* onSubmit after the await, lines 304-325: the answer of the server is in.
\* A 2xx answer with success: the reply is appended and the credits of the
\* context's user go down by 2 (image) or 1.  A 2xx answer without success:
\* the prompt is put back.  Any other status: axios rejects and the catch
\* block only shows a toast.  Finally loading is reset.
Deliver ==
  /\ submit.pc = "sent"
  /\ req[submit.h].pc = "done"
  /\ LET answer == req[submit.h]
     IN IF AxiosResolves(answer.status) /\ answer.body.success
          THEN /\ messages' = Append(messages, answer.body.reply)
               /\ clientCredits' = clientCredits - ClientCost(submit.mode)
               /\ promptInput' = promptInput
               /\ submit' = [submit EXCEPT !.pc = "idle", !.result = "ok"]
        ELSE IF AxiosResolves(answer.status)
          THEN /\ promptInput' = submit.promptCopy
               /\ submit' = [submit EXCEPT !.pc = "idle", !.result = "refused"]
               /\ UNCHANGED <<messages, clientCredits>>
          ELSE /\ submit' = [submit EXCEPT !.pc = "idle", !.result = "failed"]
               /\ UNCHANGED <<messages, clientCredits, promptInput>>
  /\ loading' = FALSE
  /\ UNCHANGED <<sendMode, publish, shownChat, chatObjects>>
  /\ UNCHANGED <<serverVars, sidebarVars, creditVars, gallery, speechVars>>

\* The server as the ChatBox sees it: the handlers work on the requests the
\* ChatBox has sent, no other client sends.
ChatBoxServerNext ==
  \E h \in Handlers :
    \/ CheckRequest(h)
    \/ FindChat(h)
    \/ TextVendor(h)
    \/ ImageFetch(h)
    \/ ImageUpload(h)
    \/ SaveChat(h)
    \/ DecrementCredits(h)
    \/ Respond200(h)

ChatBoxNext ==
  \/ \E text \in TypedPrompts : Type(text)
  \/ \E m \in Modes : SetMode(m)
  \/ SetIsPublished
  \/ \E c \in ClientChats : SelectChat(c)
  \/ \E h \in Handlers : Submit(h)
  \/ Deliver
  \/ ChatBoxServerNext

----------------------------------------------------------------------------
(* The ChatBox: voice input, ChatBox.jsx lines 222-291 *)

\* Here a text is the sequence of its characters, so that trim and
\* concatenation are computed.  What the user types before dictating:
TypedTexts == {<<>>, <<"a">>, <<"a", " ">>}

\* The transcripts the recognition delivers.
Transcripts == {<<"b">>, <<" ", "b">>}

RECURSIVE TrimStart(_)
TrimStart(text) ==
  IF text # <<>> /\ Head(text) = " " THEN TrimStart(Tail(text)) ELSE text

RECURSIVE TrimEnd(_)
TrimEnd(text) ==
  IF text # <<>> /\ text[Len(text)] = " "
    THEN TrimEnd(SubSeq(text, 1, Len(text) - 1))
    ELSE text

\* String.prototype.trim
TrimText(text) == TrimEnd(TrimStart(text))

\* The `prompt` the handlers of the recognition close over: the effect has
\* no dependencies, so it is the prompt of the first render, useState('').
MountPrompt == <<>>

\* Lines 248-249: the new prompt after a final transcript.
FinalValue(committed, finalTranscript) ==
  LET base == IF committed # <<>> THEN TrimText(committed) \o <<" ">> ELSE <<>>
  IN TrimText(base \o TrimText(finalTranscript))

\* Line 256: the prompt shown for an interim transcript.
InterimValue(committed, interimTranscript) ==
  (IF committed # <<>> THEN committed \o <<" ">> ELSE <<>>) \o interimTranscript

SpeechRest ==
  /\ UNCHANGED <<messages, loading, sendMode, publish, shownChat,
                 clientCredits, chatObjects, submit>>
  /\ UNCHANGED <<serverVars, sidebarVars, creditVars, gallery>>

\* handlePromptChange, lines 199-200: the user edits the prompt input.
TypeText(text) ==
  /\ promptInput # text
  /\ promptInput' = text
  /\ UNCHANGED speechVars
  /\ SpeechRest

\* toggleMic, lines 279-291.  Listening: recog.stop().  Else the prompt is
\* noted in committedRef and recog.start() is called; it throws while a
\* session exists, and then a retry is set for 200 ms later.
ToggleMic ==
  /\ IF listening
       THEN /\ recog' = [recog EXCEPT
                           !.session = IF @ = "on" THEN "stopping" ELSE @]
            /\ UNCHANGED committedRef
       ELSE /\ committedRef' = promptInput
            /\ recog' = IF recog.session = "off"
                          THEN [recog EXCEPT !.session = "starting",
                                             !.atStart = promptInput]
                          ELSE [recog EXCEPT !.retry = TRUE]
  /\ UNCHANGED <<listening, promptInput>>
  /\ SpeechRest

\* The retry of line 289: recog.start() once more; it starts a session when
\* none exists and throws otherwise.
RetryStart ==
  /\ recog.retry
  /\ recog' = [recog EXCEPT !.retry = FALSE,
                            !.session = IF @ = "off" THEN "starting" ELSE @]
  /\ UNCHANGED <<listening, committedRef, promptInput>>
  /\ SpeechRest

\* recog.onstart, lines 234-237.
RecogStart ==
  /\ recog.session = "starting"
  /\ recog' = [recog EXCEPT !.session = "on"]
  /\ listening' = TRUE
  /\ committedRef' = MountPrompt
  /\ UNCHANGED promptInput
  /\ SpeechRest

\* recog.onresult with an interim transcript, lines 239-246 and 255-258.
RecogInterim(interimTranscript) ==
  /\ recog.session = "on"
  /\ promptInput' = InterimValue(committedRef, interimTranscript)
  /\ promptInput' # promptInput
  /\ UNCHANGED speechVars
  /\ SpeechRest

\* recog.onresult with a final transcript, lines 239-254.  The recognition
\* is not continuous (line 230): after the final result it ends.
RecogFinal(finalTranscript) ==
  /\ recog.session = "on"
  /\ promptInput' = FinalValue(committedRef, finalTranscript)
  /\ committedRef' = promptInput'
  /\ recog' = [recog EXCEPT !.session = "heard", !.final = finalTranscript]
  /\ UNCHANGED listening
  /\ SpeechRest

\* recog.onerror, lines 261-265: recog.stop() and setListening(false).
RecogError ==
  /\ recog.session \in {"starting", "on"}
  /\ recog' = [recog EXCEPT !.session = "stopping"]
  /\ listening' = FALSE
  /\ UNCHANGED <<committedRef, promptInput>>
  /\ SpeechRest

\* recog.onend, line 267.
RecogEnd ==
  /\ recog.session \in {"on", "heard", "stopping"}
  /\ recog' = [recog EXCEPT !.session = "off"]
  /\ listening' = FALSE
  /\ UNCHANGED <<committedRef, promptInput>>
  /\ SpeechRest

SpeechNext ==
  \/ \E text \in TypedTexts : TypeText(text)
  \/ ToggleMic
  \/ RetryStart
  \/ RecogStart
  \/ \E t \in Transcripts : RecogInterim(t)
  \/ \E t \in Transcripts : RecogFinal(t)
  \/ RecogError
  \/ RecogEnd

----------------------------------------------------------------------------
(* The specifications *)

\* The client as it is while the server is studied: nobody is logged in.
SidebarParked ==
  /\ user = 0
  /\ chats = <<>>
  /\ selectedChat = 0
  /\ autoCreated = FALSE
  /\ deletionTimersRef = [c \in ClientChatIds |-> 0]
  /\ timeouts = {}
  /\ nextTimeout = 1
  /\ clicks = 0
  /\ newChat = [pc |-> "idle", chats |-> <<>>]
  /\ effectRuns = {}
  /\ callbacks = {}
  /\ deleting = [pc |-> "idle", chatId |-> 0]
  /\ serverChats = [c \in ClientChatIds |-> NoChat]
  /\ nextChat = 1
  /\ clock = 2
  /\ origin = [c \in ClientChatIds |-> "none"]
  /\ timerLog = [c \in ClientChatIds |-> NothingLogged]

\* The message controllers as they are while the client is studied: no
\* request in flight.
ServerParked ==
  /\ credits0 = [u \in Users |-> MaxCredits]
  /\ credits = credits0
  /\ Chat = [c \in StoredChatIds |-> [userId |-> ChatOwner[c], messages |-> <<>>]]
  /\ req = [h \in Handlers |-> IdleReq]
  /\ sends = 0
  /\ ok200 = [u \in Users |-> [m \in Modes |-> 0]]

\* The credit controllers as they are while the others are studied: no
\* request, no transaction.
CreditParked == CreditInit

\* The ChatBox as it is while the others are studied: nothing typed, nothing
\* sent.
ChatBoxParked ==
  /\ messages = <<>>
  /\ loading = FALSE
  /\ promptInput = ""
  /\ sendMode = "text"
  /\ publish = FALSE
  /\ shownChat = NoSelection
  /\ clientCredits = 0
  /\ chatObjects = [c \in ClientChats |-> <<>>]
  /\ submit = IdleSubmit
  /\ MicOff

Init ==
  ServerInit /\ SidebarParked /\ CreditParked /\ ChatBoxParked /\ GalleryInit

Next == ServerNext

Spec == Init /\ [][Next]_vars

SidebarSpecInit ==
  SidebarInit /\ ServerParked /\ CreditParked /\ ChatBoxParked /\ GalleryInit

SpecSidebar == SidebarSpecInit /\ [][SidebarNext]_vars

\* The Sidebar right after the first login of a user, who has no chat yet:
\* the user is set and the first run of the auto-create effect awaits
\* createNewChat().  The user object does not change again.
LoggedInInit ==
  /\ Mounted(1, {[run |-> 1, pc |-> "create", cancelled |-> FALSE,
                  chats |-> <<>>]}, {"none"})
  /\ ServerParked /\ CreditParked /\ ChatBoxParked /\ GalleryInit

LoggedInNext ==
  \/ \E r \in effectRuns : AutoCreateSettles(r)
  \/ \E r \in effectRuns : AutoCreateFetched(r)
  \/ NewChatClick
  \/ NewChatSettles
  \/ NewChatFetched
  \/ \E t \in timeouts : TimerFires(t)
  \/ \E cb \in callbacks : AutoDeleteAnswered(cb)
  \/ \E cb \in callbacks : AutoDeleteFetched(cb)
  \/ \E c \in ClientChatIds : DeleteChatClick(c)
  \/ DeleteChatAnswered
  \/ DeleteChatFetched
  \/ MessageSaved
  \/ ContextReloads

SpecLoggedIn == LoggedInInit /\ [][LoggedInNext]_vars

\* All the controllers of the server.
ServerSpecNext == ServerNext \/ CreditNext

SpecServer == Init /\ [][ServerSpecNext]_vars

\* The credit controllers alone.
SpecCredit == Init /\ [][CreditNext]_vars

\* The credit controllers with the scheduling of Node: a handler that can
\* take its next step takes it (a promise that settles, a continuation that
\* runs).  No request has to arrive.
CreditHandlerStep == GetPlans \/ PurchaseLookup \/ PurchaseCreate

SpecCreditFair == SpecCredit /\ WF_vars(CreditHandlerStep)

\* The message controllers and getPublishedImages.
GallerySpecNext == ServerNext \/ GalleryNext

SpecGallery == Init /\ [][GallerySpecNext]_vars

\* The voice input of one ChatBox: nothing is sent.
SpeechInit ==
  /\ ServerParked /\ SidebarParked /\ CreditParked /\ GalleryInit
  /\ messages = <<>>
  /\ loading = FALSE
  /\ promptInput = <<>>
  /\ sendMode = "text"
  /\ publish = FALSE
  /\ shownChat = NoSelection
  /\ clientCredits = 0
  /\ chatObjects = [c \in ClientChats |-> <<>>]
  /\ submit = IdleSubmit
  /\ MicOff

SpecSpeech == SpeechInit /\ [][SpeechNext]_vars

\* One ChatBox and the message controllers that answer it.
ChatBoxSpecInit ==
  ServerInit /\ SidebarParked /\ CreditParked /\ ChatBoxInit /\ GalleryInit

SpecChatBox == ChatBoxSpecInit /\ [][ChatBoxNext]_vars

----------------------------------------------------------------------------
(* Properties of the Sidebar *)

\* C10: a chat created by the New Chat button or by the auto-create on login
\* that has no messages when its auto-delete timer fires is deleted: the
\* timer callback sends POST /api/chat/delete for it.
C10_TimerDeletesEmptyChat ==
  \A c \in ClientChatIds :
    (origin[c] \in {"button", "auto"} /\ timerLog[c].firedEmpty)
      => timerLog[c].requested

\* C15: while a Sidebar is mounted its auto-create effect creates at most one
\* chat for the user, however often the user object changes and whatever
\* the timing of the createNewChat answers.
C15_AutoCreateOnce ==
  Cardinality({c \in ClientChatIds : origin[c] = "auto"}) <= 1

\* C20: when the server confirms a delete by hand, the pending auto-delete
\* timer of that chat is cleared, and no auto-delete request for that chat
\* id is sent afterwards.  (A declined confirmation is the step of
\* DeleteChatClick that leaves every variable as it is.)
C20_HandDeleteEndsTimer ==
  /\ [][\A c \in ClientChatIds :
          (~timerLog[c].handDeleted /\ timerLog'[c].handDeleted)
            => /\ deletionTimersRef'[c] = 0
               /\ \A t \in timeouts' : t.chatId # c]_vars
  /\ [](\A c \in ClientChatIds : ~timerLog[c].requestedAfterDelete)

\* The timeouts that are pending for a chat.
PendingFor(c) == {t \in timeouts : t.chatId = c}

\* The callbacks of fired timers of a chat that have not finished.
RunningFor(c) == {cb \in callbacks : cb.chatId = c}

C18_NoDeleteAfterMessage ==
  \A c \in ClientChatIds :
    timerLog[c].requested => ~timerLog[c].messagedSince

----------------------------------------------------------------------------
(* Properties of the message controllers *)

Done(h) == req[h].pc = "done"

\* The handler has run its credit check and its body check.
Checked(h) == req[h].pc \notin {"idle", "start"}

\* The handler has seen the answer of findOne.
Looked(h) == req[h].pc \notin {"idle", "start", "find"}

\* The balance on the request does not cover the send: below 1 for text,
\* below 2 for image.
Insufficient(h) ==
  \/ req[h].mode = "text" /\ req[h].credits < 1
  \/ req[h].mode = "image" /\ req[h].credits < 2

\* chatId or prompt is missing from the body, or empty.
Malformed(h) ==
  \/ req[h].chatId \in {Undefined, ""}
  \/ req[h].prompt \in {Undefined, ""}

\* chatId names no chat, or a chat of another user.
NotOwnChat(h) ==
  \/ req[h].chatId \notin StoredChatIds
  \/ ChatOwner[req[h].chatId] # req[h].user

\* The handler called no vendor and wrote nothing.
NoEffect(h) ==
  /\ req[h].vendorCalls = 0
  /\ ~req[h].saved
  /\ ~req[h].charged

\* The step in which handler h answers with `code` leaves the stored chats
\* and the stored credits as they are.
AnswerLeavesStore(code) ==
  \A h \in Handlers :
    (req[h].status # code /\ req'[h].status = code)
      => UNCHANGED <<Chat, credits>>

\* C1: a text send with credits < 1 on the request, and an image send with
\* credits < 2, is answered 402; the handler calls no vendor, saves no chat,
\* decrements nothing, and the answering step changes neither the stored
\* chats nor the stored credits.
C1_InsufficientCredits ==
  /\ [](\A h \in Handlers :
          (Checked(h) /\ Insufficient(h))
            => (Done(h) /\ req[h].status = 402 /\ NoEffect(h)))
  /\ [](\A h \in Handlers : req[h].status = 402 => Insufficient(h))
  /\ [][AnswerLeavesStore(402)]_vars

\* At balance 1 an image send was answered 402 while a text send went through.
C1_Witness ==
  \E h1, h2 \in Handlers :
    /\ Done(h1) /\ req[h1].mode = "image" /\ req[h1].credits = 1
    /\ req[h1].status = 402
    /\ Done(h2) /\ req[h2].mode = "text" /\ req[h2].credits = 1
    /\ req[h2].status = 200

\* No handler is between two steps.
Quiescent == \A h \in Handlers : req[h].pc \in {"idle", "done"}

\* C2: when no send is in flight, the stored credits of every user are the
\* initial credits minus 1 per text send answered 200 and minus 2 per image
\* send answered 200; the sends answered otherwise have changed nothing.
C2_CreditsAccounting ==
  Quiescent =>
    \A u \in Users :
      credits[u] = credits0[u] - ok200[u]["text"] - 2 * ok200[u]["image"]

\* Of two sends, an image send was answered 200 and a text send was answered
\* 500 after its chat had been saved: the credits went down by 2.
C2_Witness ==
  /\ Quiescent
  /\ sends = 2
  /\ ok200["u1"]["image"] = 1
  /\ ok200["u1"]["text"] = 0
  /\ credits["u1"] = credits0["u1"] - 2
  /\ \E h \in Handlers :
       req[h].mode = "text" /\ req[h].status = 500 /\ req[h].saved

C5_Original ==
  \A h \in Handlers : (Done(h) /\ Malformed(h)) => req[h].status = 400

\* C5, amended: a send whose body lacks chatId or prompt is answered 400 when
\* the credits on the request cover the send and 402 when they do not; either
\* way it has no effect on the chats and the credits.
C5_MalformedRequest ==
  /\ [](\A h \in Handlers :
          (Checked(h) /\ Malformed(h))
            => /\ Done(h)
               /\ req[h].status = IF Insufficient(h) THEN 402 ELSE 400
               /\ NoEffect(h))
  /\ [][AnswerLeavesStore(400)]_vars

\* A send with an empty prompt and a send without chatId were answered 400.
C5_Witness ==
  \E h1, h2 \in Handlers :
    /\ req[h1].status = 400 /\ req[h1].prompt = "" /\ req[h1].chatId = "c1"
    /\ req[h2].status = 400 /\ req[h2].chatId = Undefined
    /\ req[h2].prompt = "hi"

\* C6: a send whose vendor call fails is answered 500, having saved no chat
\* and decremented nothing, and the answering step leaves the stored chats
\* and credits as they are; the user message is on the in-memory document
\* only.
C6_VendorFailure ==
  /\ [](\A h \in Handlers :
          req[h].error = "vendor"
            => /\ Done(h) /\ req[h].status = 500
               /\ ~req[h].saved /\ ~req[h].charged
               /\ Len(req[h].chat.messages) = Len(req[h].read) + 1)
  /\ [][\A h \in Handlers :
          (req[h].error # "vendor" /\ req'[h].error = "vendor")
            => UNCHANGED <<Chat, credits>>]_vars

\* The only send so far failed in its vendor call, in text and in image mode:
\* the store is as it was at the start.
C6_Witness ==
  \E h1, h2 \in Handlers :
    /\ req[h1].error = "vendor" /\ req[h1].mode = "text"
    /\ req[h2].error = "vendor" /\ req[h2].mode = "image"
    /\ req[h2].vendorCalls = 2
    /\ sends = 2
    /\ credits = credits0
    /\ \A c \in StoredChatIds : Chat[c].messages = <<>>

\* C7: the pre-check reads the balance on the request and the decrement
\* subtracts the cost from whatever is stored: every handler past the check
\* had a sufficient balance on its request, and every successful decrement
\* lowers the stored credits by the cost without looking at them.
C7_CheckThenDecrement ==
  /\ [](\A h \in Handlers :
          req[h].pc \in {"find", "vendor", "upload", "save", "dec", "respond"}
            => ~Insufficient(h))
  /\ [][\A h \in Handlers :
          (req[h].pc = "dec" /\ req'[h].pc = "respond")
            => credits'[req[h].user] =
                 credits[req[h].user]
                   - (IF req[h].mode = "text" THEN 1 ELSE 2)]_vars

\* Two text sends of one user at balance 1 were both answered 200 and the
\* stored credits are -1.
C7_Witness ==
  /\ credits0["u1"] = 1
  /\ credits["u1"] = -1
  /\ sends = 2
  /\ \A h \in Handlers :
       /\ req[h].status = 200 /\ req[h].mode = "text" /\ req[h].credits = 1

\* C8: the save of a handler stores the handler's in-memory document whole,
\* whatever the store holds at that moment.
C8_SaveOverwrites ==
  [][\A h \in Handlers :
       (req[h].pc = "save" /\ req'[h].pc = "dec")
         => Chat'[req[h].chatId].messages = req[h].chat.messages]_vars

\* Two sends to the same chat were both answered 200 and both charged, and
\* the stored chat holds the messages of one of them only.
C8_Witness ==
  \E h1, h2 \in Handlers :
    /\ h1 # h2
    /\ sends = 2
    /\ req[h1].status = 200 /\ req[h1].charged /\ req[h1].mode = "text"
    /\ req[h2].status = 200 /\ req[h2].charged /\ req[h2].mode = "image"
    /\ req[h1].chatId = req[h2].chatId
    /\ credits["u1"] = credits0["u1"] - 3
    /\ LET stored == Chat[req[h1].chatId].messages
       IN /\ Len(stored) = 2
          /\ \A i \in 1..Len(stored) : stored[i] # req[h1].reply

\* C9: a send whose credit decrement fails is answered 500 after its save,
\* with nothing decremented, and the answering step leaves the stored chats
\* (the saved messages included) and the stored credits as they are.
C9_NoRollback ==
  /\ [](\A h \in Handlers :
          req[h].error = "updateOne"
            => /\ Done(h) /\ req[h].status = 500
               /\ req[h].saved /\ ~req[h].charged)
  /\ [][\A h \in Handlers :
          (req[h].error # "updateOne" /\ req'[h].error = "updateOne")
            => UNCHANGED <<Chat, credits>>]_vars

\* The only send so far was answered 500 by a failed decrement: the chat holds
\* its user message and reply, the credits are the initial ones.
C9_Witness ==
  \E h \in Handlers :
    /\ sends = 1
    /\ req[h].error = "updateOne" /\ req[h].status = 500
    /\ Len(Chat[req[h].chatId].messages) = 2
    /\ Chat[req[h].chatId].messages[1].content = req[h].prompt
    /\ Chat[req[h].chatId].messages[2] = req[h].reply
    /\ credits = credits0

\* The steps of the handler of one request after its arrival.
HandlerStep(h) ==
  \/ CheckRequest(h) \/ FindChat(h) \/ TextVendor(h) \/ ImageFetch(h)
  \/ ImageUpload(h) \/ SaveChat(h) \/ DecrementCredits(h) \/ Respond200(h)

\* C17: every text or image send gets exactly one response: the handler ends
\* only by answering, an unanswered request always has a next step, and
\* after the answer the handler does nothing more.  A 200 is sent only
\* after the chat was saved and then the credits were decremented.
C17_OneResponseInOrder ==
  /\ [](\A h \in Handlers :
          /\ (req[h].pc = "done") <=> (req[h].status # 0)
          /\ req[h].pc \notin {"idle", "done"} => ENABLED HandlerStep(h)
          /\ req[h].charged => req[h].saved
          /\ req[h].status = 200 => (req[h].saved /\ req[h].charged))
  /\ [][\A h \in Handlers :
          /\ (req[h].pc = "done" /\ req'[h].pc # "start") => req'[h] = req[h]
          /\ (~req[h].charged /\ req'[h].charged)
               => (req[h].saved /\ req'[h].status = 0)
          /\ (req[h].status # 200 /\ req'[h].status = 200)
               => (req[h].saved /\ req[h].charged)]_vars

\* A send was saved, charged and then answered 200; another one was
\* answered 500 after its save.
C17_Witness ==
  /\ req["h1"].pc = "done" /\ req["h1"].status = 200
  /\ req["h1"].saved /\ req["h1"].charged
  /\ req["h2"].pc = "done" /\ req["h2"].status = 500
  /\ req["h2"].saved /\ ~req["h2"].charged

----------------------------------------------------------------------------
(* Properties of the credit controllers *)

\* The terms of the plans on sale.
PlanTerms ==
  [basic |-> [price |-> 10, credits |-> 100],
   pro |-> [price |-> 20, credits |-> 500],
   premium |-> [price |-> 30, credits |-> 1000]]

\* The purchase request in hand ends with this step.
PurchaseEnds == pay.pc \in {"purchase", "create"} /\ pay'.pc \in {"done", "returned"}

\* C11: purchasePlan with planId basic, pro or premium creates exactly one
\* Transaction for the authenticated user, with that planId, amount = the
\* plan's price, credits = the plan's credits and isPaid = false (when
\* Transaction.create does not fail); with any other planId it creates no
\* Transaction and answers 'Invalid plan'.  No other step of the handler
\* touches the collection.
C11_PurchasePlan ==
  [][pay.pc \in {"purchase", "create"} =>
       IF PurchaseEnds /\ pay.planId \in DOMAIN PlanTerms /\ pay'.error = "none"
         THEN /\ Transaction' =
                   Append(Transaction,
                          [userId |-> pay.user, planId |-> pay.planId,
                           amount |-> PlanTerms[pay.planId].price,
                           credits |-> PlanTerms[pay.planId].credits,
                           isPaid |-> FALSE])
              /\ Len(pay'.created) = 1
       ELSE IF PurchaseEnds /\ pay.planId \notin DOMAIN PlanTerms
         THEN /\ Transaction' = Transaction
              /\ pay'.created = <<>>
              /\ pay'.responses = 1
              /\ pay'.body.sucess = FALSE
              /\ pay'.body.message = " Invalid plan "
       ELSE Transaction' = Transaction]_vars

\* A valid purchase has stored its transaction and the next request, with an
\* unknown plan, was answered 'Invalid plan'.
C11_Witness ==
  /\ Len(Transaction) = 1
  /\ Transaction[1] = [userId |-> "u1", planId |-> "pro", amount |-> 20,
                       credits |-> 500, isPaid |-> FALSE]
  /\ pay.pc = "done"
  /\ pay.planId = "gold"
  /\ pay.body.message = " Invalid plan "

\* C24: every purchasePlan request, whatever its planId and whether or not
\* Transaction.create fails, is eventually answered with a JSON response.
C24_PurchaseAnswered ==
  (pay.pc = "purchase") ~> (pay.route = "purchase" /\ pay.responses = 1)

\* C12: no operation grants credits or finalizes a purchase: every
\* Transaction has isPaid = false and no user's stored credits exceed the
\* initial ones.
C12_NothingGranted ==
  /\ \A i \in 1..Len(Transaction) : Transaction[i].isPaid = FALSE
  /\ \A u \in Users : credits[u] <= credits0[u]

\* A purchase was stored and a send was charged.
C12_Witness ==
  /\ Len(Transaction) = 1
  /\ pay.pc = "returned"
  /\ \E h \in Handlers : req[h].pc = "done" /\ req[h].status = 200
  /\ credits["u1"] < credits0["u1"]

\* A JSON body of the failure form: { success: false, message }.
IsFailureBody(b) ==
  /\ "success" \in DOMAIN b
  /\ b.success = FALSE
  /\ "message" \in DOMAIN b

\* The status codes of failure answers.
FailureCodes == {400, 402, 404, 500}

\* C13: every failure answer of every controller, message controllers and
\* credit controllers, is a JSON body with success = false and a message,
\* sent with one of the status codes 400, 402, 404, 500.
C13_FailureAnswers ==
  /\ \A h \in Handlers :
       (req[h].pc = "done" /\ req[h].status # 200)
         => IsFailureBody(req[h].body) /\ req[h].status \in FailureCodes
  /\ (pay.pc = "done" /\ pay.route = "purchase")
       => IsFailureBody(pay.body) /\ pay.status \in FailureCodes

----------------------------------------------------------------------------
(* Properties of the ChatBox *)

\* The last send of the ChatBox has failed.
SendFailed == submit.pc = "idle" /\ submit.result = "failed"

\* The local list still ends with the user message of the last send.
LocalHas ==
  /\ Len(messages) > 0
  /\ messages[Len(messages)] = LocalUserMessage(submit.promptCopy)

\* The server's chat holds what it held when the last send was submitted.
ServerLacks == StoredLen(submit.chatId) = submit.stored

\* C14 as stated: onSubmit appends the user's message to the local list
\* before the request is sent and never removes it when the request fails;
\* after a failed send the local list contains a user message that the
\* server's persisted chat does not contain.
C14_Original == SendFailed => (LocalHas /\ ServerLacks)

\* C14, amended: the user message is appended in the step that sends the
\* request and stays in the local list when the send fails, as long as no
\* other chat is selected; the server's chat lacks it exactly when the
\* request failed before chat.save() completed.
C14_FailedSendKeepsMessage ==
  /\ [](SendFailed => /\ ~submit.switched => LocalHas
                      /\ ServerLacks <=> ~req[submit.h].saved)
  /\ [][(submit.pc = "idle" /\ submit'.pc = "sent")
          => /\ messages' = Append(messages, LocalUserMessage(promptInput))
             /\ req'[submit'.h].pc = "start"
             /\ req'[submit'.h].prompt = promptInput]_vars

\* A send failed at the vendor: the local list has the user message and the
\* server's chat does not.
C14_Witness ==
  /\ SendFailed
  /\ ~submit.switched
  /\ req[submit.h].error = "vendor"
  /\ LocalHas
  /\ ServerLacks

\* The call of onSubmit in flight ends in this step with a reply.
ReplyArrives == submit.pc = "sent" /\ submit'.pc = "idle" /\ submit'.result = "ok"

\* C21: a reply is appended only to the displayed messages of the chat the
\* prompt was sent to: when another chat is shown at the arrival of the
\* reply, the displayed list stays as it is.
C21_ReplyToItsChat ==
  [][(ReplyArrives /\ shownChat # submit.chatId) => messages' = messages]_vars

\* The call of onSubmit in flight ends in this step with an answer of the
\* server that is a failure.
FailureArrives ==
  /\ submit.pc = "sent" /\ submit'.pc = "idle"
  /\ req[submit.h].status \in FailureCodes

\* C22: when the server answers a send with 400, 402, 404 or 500, the ChatBox
\* puts the submitted text back into the prompt input.
C22_PromptRestored ==
  [][FailureArrives => promptInput' = submit.promptCopy]_vars

\* C23: whenever no send of the ChatBox is in flight, the credits of the
\* client's user state equal the credits the server stores: the client takes
\* 1 (text) or 2 (image) off exactly when the server did.  While a send is
\* in flight the two differ by at most the cost of that send.
C23_CreditsInStep ==
  /\ submit.pc = "idle" => clientCredits = credits[ClientUser]
  /\ submit.pc = "sent" =>
       clientCredits - credits[ClientUser] \in {0, DecAmount(submit.mode)}
  /\ clientCredits =
       credits0[ClientUser] - ok200[ClientUser]["text"]
                            - 2 * ok200[ClientUser]["image"]
         + (IF submit.pc = "sent" /\ req[submit.h].status = 200
              THEN DecAmount(submit.mode) ELSE 0)

\* An image send was answered 200 and the next send failed: client and
\* server both hold two credits less.
C23_Witness ==
  /\ submit.pc = "idle"
  /\ submit.result = "failed"
  /\ ok200[ClientUser]["image"] = 1
  /\ clientCredits = credits0[ClientUser] - 2
  /\ credits[ClientUser] = clientCredits

----------------------------------------------------------------------------
(* Properties of the voice input *)

\* onresult delivers a final transcript in this step.
FinalArrives == recog.session = "on" /\ recog'.session = "heard"

\* C25: when the recognition delivers a final transcript, the prompt becomes
\* the text that was in the prompt input when the microphone was started,
\* followed by a space and the trimmed transcript: text typed before the
\* dictation is kept and the dictation is appended to it.  The two are joined
\* as lines 248-249 join them: the text is trimmed, and an empty text gets no
\* space.
C25_DictationAppended ==
  [][FinalArrives =>
       promptInput' = FinalValue(recog.atStart, recog'.final)]_vars

----------------------------------------------------------------------------
(* Properties of getPublishedImages *)

\* A stored message that is a published image.
PublishedImage(m) ==
  /\ "isImage" \in DOMAIN m /\ m.isImage
  /\ "isPublished" \in DOMAIN m /\ m.isPublished

\* The places of the published images in a chat.
PublishedIn(c) ==
  {i \in 1..Len(Chat[c].messages) : PublishedImage(Chat[c].messages[i])}

\* The entries of a result that carry the name of the owner of chat c.
EntriesOf(images, c) ==
  {k \in 1..Len(images) : images[k].userName = UserNames[ChatOwner[c]]}

====
